---- MODULE Spec2Model ----
(***************************************************************************)
(* Debt-issuance dashboard: the refresh job (update_data.py) that fetches  *)
(* US auction records and Euro-area issuance series and overwrites the     *)
(* cache files, and the web process (app.py) that loads the US cache once  *)
(* at start, reads a Euro cache on each request, and renders charts.       *)
(***************************************************************************)
EXTENDS Integers, Sequences, FiniteSets, TLC

VARIABLES
    duration_days,      \* update_us_cache: the duration handed to the binner
    maturity_bin,       \* update_us_cache: the label the binner returned
    us_file,            \* auctions.pkl
    euro_files,         \* euro_data_<code>.pkl, one per Euro country
    job_pc,             \* refresh job: position in update_data.py
    mode,               \* refresh job: sys.argv[1] ("daily", "monthly", "all")
    page_num,           \* fetch_us_data: next page to request
    total_pages,        \* fetch_us_data: meta.total-pages of the first page
    all_records,        \* fetch_us_data: records accumulated so far
    code_idx,           \* update_euro_cache: index of the country in progress
    tenor_idx,          \* get_and_process_euro_data: index of the next tenor
    country_data_frames,\* get_and_process_euro_data: series fetched so far
    exit_status,        \* refresh job: process exit status
    us_fetch_failed,    \* history: fetch_us_data returned None in this run
    us_file_at_start,   \* history: auctions.pkl as it was when the run began
    euro_at_start,      \* history: the Euro cache files when the run began
    tenor_log,          \* history: per country, the outcome of each tenor fetch
    faults,             \* upstream failures that may still be injected
    web_pc,             \* web process: "down", "up" or "crashed"
    US_DASHBOARD_DATA,  \* app.py global: the US snapshot loaded at start
    us_loaded,          \* history: what the load at start returned
    us_absent_at_start, \* history: auctions.pkl was absent at process start
    last_read,          \* history: what the latest read_pickle observed
    file_at_request,    \* history: auctions.pkl when the latest US request was served
    response            \* the page returned by the latest request

vars == << duration_days, maturity_bin, us_file, euro_files, job_pc, mode,
           page_num, total_pages, all_records, code_idx, tenor_idx,
           country_data_frames, exit_status, us_fetch_failed,
           us_file_at_start, euro_at_start, tenor_log, faults, web_pc,
           US_DASHBOARD_DATA, us_loaded, us_absent_at_start, last_read,
           file_at_request, response >>

(***************************************************************************)
(* Bounds of the model.                                                    *)
(***************************************************************************)
MaxDays == 3700         \* durations range over -MaxDays..MaxDays and NaN
MaxRecords == 2         \* rows of a US snapshot drawn for the aggregation
MaxPages == 2           \* meta.total-pages of the US upstream
MaxFailures == 6        \* upstream failures injected in one refresh run

(***************************************************************************)
(* Floating-point values as pandas holds them: a number (a rational        *)
(* num/den), NaN, or an infinity.                                          *)
(***************************************************************************)
NaN == [kind |-> "nan", num |-> 0, den |-> 1]
Inf == [kind |-> "inf", num |-> 1, den |-> 1]
Num(n) == [kind |-> "num", num |-> n, den |-> 1]
Rat(n, d) == [kind |-> "num", num |-> n, den |-> d]
IsNum(x) == x.kind = "num"

\* Python comparisons of a float with an int: any comparison with NaN is False.
LessEq(x, n) == IsNum(x) /\ x.num <= n * x.den
Less(x, n) == IsNum(x) /\ x.num < n * x.den

(***************************************************************************)
(* update_us_cache.assign_maturity_bin                                     *)
(***************************************************************************)
US_PLOT_ORDER == << "< 1 Month", "1-3 Months", "3-12 Months", "1-3 Years",
                    "3-10 Years", "10+ Years", "Other" >>

USLabels == { US_PLOT_ORDER[i] : i \in 1..Len(US_PLOT_ORDER) }

\* The binner with each boundary value left in the lower bucket (<= for <).
assign_maturity_bin_boundary_low(days) ==
    IF LessEq(days, 0) THEN "Other"
    ELSE IF LessEq(days, 30) THEN "< 1 Month"
    ELSE IF LessEq(days, 91) THEN "1-3 Months"
    ELSE IF LessEq(days, 365) THEN "3-12 Months"
    ELSE IF LessEq(days, 365 * 3) THEN "1-3 Years"
    ELSE IF LessEq(days, 365 * 10) THEN "3-10 Years"
    ELSE "10+ Years"

assign_maturity_bin(days) ==
    IF LessEq(days, 0) THEN "Other"
    ELSE IF Less(days, 30) THEN "< 1 Month"
    ELSE IF Less(days, 91) THEN "1-3 Months"
    ELSE IF Less(days, 365) THEN "3-12 Months"
    ELSE IF Less(days, 365 * 3) THEN "1-3 Years"
    ELSE IF Less(days, 365 * 10) THEN "3-10 Years"
    ELSE "10+ Years"

(***************************************************************************)
(* Dates are day ordinals, day 0 being 2024-01-01.  A missing date (NaT)   *)
(* is NaN.  pandas' 'Q' frequency labels a quarter by its last day.        *)
(***************************************************************************)
NaT == NaN

IsLeap(y) == y % 4 = 0 /\ (y % 100 # 0 \/ y % 400 = 0)

DaysInYear(y) == IF IsLeap(y) THEN 366 ELSE 365

RECURSIVE YearStart(_, _, _)
\* The ordinal of 1 January of the year holding day d, searching from year y
\* whose 1 January is day s.
YearStart(d, y, s) ==
    IF d < s + DaysInYear(y) THEN << y, s >> ELSE YearStart(d, y + 1, s + DaysInYear(y))

\* The same with the quarter's last day sent to the next quarter.
QuarterEnd_last_day_excluded(d) ==
    LET ys == YearStart(d, 2024, 0)
        s == ys[2]
        q1 == s + (IF IsLeap(ys[1]) THEN 91 ELSE 90) - 1
        q2 == q1 + 91
        q3 == q2 + 92
        q4 == q3 + 92
    IN  IF d < q1 THEN q1 ELSE IF d < q2 THEN q2 ELSE IF d < q3 THEN q3 ELSE q4

\* pd.Grouper(freq='Q') / resample('Q'): the quarter-end day of day d (d >= 0).
QuarterEnd(d) ==
    LET ys == YearStart(d, 2024, 0)
        s == ys[2]
        q1 == s + (IF IsLeap(ys[1]) THEN 91 ELSE 90) - 1
        q2 == q1 + 91
        q3 == q2 + 92
        q4 == q3 + 92
    IN  IF d <= q1 THEN q1 ELSE IF d <= q2 THEN q2 ELSE IF d <= q3 THEN q3 ELSE q4

RECURSIVE QuarterRange(_, _)
\* resample('Q'): every quarter end from the first to the last, inclusive.
QuarterRange(first, last) ==
    IF first > last THEN {} ELSE {first} \cup QuarterRange(QuarterEnd(first + 1), last)

(***************************************************************************)
(* update_us_cache: the columns it derives from the fetched records.       *)
(* A raw record carries issue_date (a date), maturity_date (a date or      *)
(* NaT) and total_accepted (a number, or NaN for an unparsable field).     *)
(* auction_date, offering_amt and security_term feed only the forthcoming  *)
(* auctions table of the page and are not carried.                         *)
(***************************************************************************)
\* pd.to_numeric(..., errors='coerce').fillna(0)
to_numeric_fillna(x) == IF IsNum(x) THEN x.num ELSE 0

\* (maturity_date - issue_date).dt.days
DurationDays(issue, maturity) ==
    IF IsNum(maturity) THEN Num(maturity.num - issue) ELSE NaN

ProcessRecord(r) ==
    [ issue_date |-> r.issue_date,
      maturity_date |-> r.maturity_date,
      total_accepted |-> to_numeric_fillna(r.total_accepted),
      duration_days |-> DurationDays(r.issue_date, r.maturity_date),
      maturity_bin |-> assign_maturity_bin(DurationDays(r.issue_date, r.maturity_date)) ]

ProcessUS(records) == [ i \in 1..Len(records) |-> ProcessRecord(records[i]) ]

(***************************************************************************)
(* Tables (DataFrames indexed by period, one column per bucket).           *)
(***************************************************************************)
EmptyTable == [ index |-> {}, columns |-> {}, cell |-> << >> ]

Table(index, columns, f(_, _)) ==
    [ index |-> index, columns |-> columns,
      cell |-> [ k \in index \X columns |-> f(k[1], k[2]) ] ]

RECURSIVE SumSeq(_)
\* The sum of a sequence of numbers.
SumSeq(xs) == IF xs = << >> THEN 0 ELSE Head(xs) + SumSeq(Tail(xs))

\* The sum of amount(row) over the rows of df that satisfy keep(row).
SumWhere(df, keep(_), amount(_)) ==
    SumSeq([ i \in 1..Len(df) |-> IF keep(df[i]) THEN amount(df[i]) ELSE 0 ])

RECURSIVE SumOver(_, _)
\* The sum of f[x] over the finite set S.
SumOver(f, S) ==
    IF S = {} THEN 0
    ELSE LET x == CHOOSE y \in S : TRUE IN f[x] + SumOver(f, S \ {x})

\* Float arithmetic on the values of a percentage table.
FAdd(a, b) ==
    IF a.kind = "nan" \/ b.kind = "nan" THEN NaN
    ELSE IF a.kind = "inf" \/ b.kind = "inf" THEN Inf
    ELSE Rat(a.num * b.den + b.num * a.den, a.den * b.den)

RECURSIVE FSumOver(_, _)
\* The float sum of f[x] over the finite set S.
FSumOver(f, S) ==
    IF S = {} THEN Num(0)
    ELSE LET x == CHOOSE y \in S : TRUE IN FAdd(f[x], FSumOver(f, S \ {x}))

\* x / t for a cell x and a period total t: 0/0 is NaN, x/0 is an infinity.
FDiv(x, t) ==
    IF x.kind = "nan" \/ t.kind = "nan" THEN NaN
    ELSE IF x.kind = "inf" THEN Inf
    ELSE IF t.num = 0 THEN (IF x.num = 0 THEN NaN ELSE Inf)
    ELSE Rat(x.num * t.den, x.den * t.num)

fillna(x) == IF x.kind = "nan" THEN Num(0) ELSE x

FTimes(x, n) == IF IsNum(x) THEN Rat(x.num * n, x.den) ELSE x

FPositive(x) == x.kind = "inf" \/ (IsNum(x) /\ x.num > 0)

FEquals(x, n) == IsNum(x) /\ x.num = n * x.den

(***************************************************************************)
(* app.py: the chart slots of a page.  A slot holds either a placeholder   *)
(* text or a chart (its traces in plot order, over a table).               *)
(***************************************************************************)
Text(t) == [ kind |-> "text", text |-> t, traces |-> << >>, table |-> EmptyTable ]

Chart(traces, table) ==
    [ kind |-> "chart", text |-> "", traces |-> traces, table |-> table ]

US_EMPTY_MSG == "<p>US data cache is empty. Please run the update script.</p>"
US_NO_DATA_MSG == "<p>No data for selected date range.</p>"
EURO_EMPTY_MSG(code) ==
    CASE code = "DE" -> "<p>Euro data cache for Germany is empty. Please run the update script.</p>"
      [] code = "IT" -> "<p>Euro data cache for Italy is empty. Please run the update script.</p>"
      [] code = "FR" -> "<p>Euro data cache for France is empty. Please run the update script.</p>"
EURO_NO_DATA_MSG == "<p>No data to display.</p>"
EURO_NO_POSITIVE_MSG == "<p>No positive issuance data to plot.</p>"

(***************************************************************************)
(* dashboard, US branch: the date-window filter and the quarterly tables   *)
(* (app.py lines 127-135).  df is a sequence of processed records.         *)
(***************************************************************************)
\* mask = (issue_date >= start_date) & (issue_date <= end_date); .loc[mask].copy()
FilterWindow(df, start_date, end_date) ==
    SelectSeq(df, LAMBDA r : r.issue_date >= start_date /\ r.issue_date <= end_date)

RowQuarters(df) == { QuarterEnd(df[i].issue_date) : i \in 1..Len(df) }

RowBins(df) == { df[i].maturity_bin : i \in 1..Len(df) }

MinOf(S) == CHOOSE x \in S : \A y \in S : x <= y
MaxOf(S) == CHOOSE x \in S : \A y \in S : x >= y

\* df_filtered.resample('Q')['total_accepted'].sum(): one entry per quarter from
\* the first to the last quarter holding a record, 0 for a quarter with none.
quarterly_issuance(df) ==
    [ q \in QuarterRange(MinOf(RowQuarters(df)), MaxOf(RowQuarters(df))) |->
        SumWhere(df, LAMBDA r : QuarterEnd(r.issue_date) = q,
                     LAMBDA r : r.total_accepted) ]

\* groupby([pd.Grouper(freq='Q'), 'maturity_bin'])['total_accepted'].sum()
\*   .unstack(fill_value=0): rows are the quarters holding a record, columns the
\* buckets holding a record, an unobserved combination is 0.
quarterly_mix_nominal(df) ==
    Table(RowQuarters(df), RowBins(df),
          LAMBDA q, b : SumWhere(df, LAMBDA r : QuarterEnd(r.issue_date) = q
                                                /\ r.maturity_bin = b,
                                     LAMBDA r : r.total_accepted))

\* The percentage table without the fillna(0):
\* quarterly_mix_nominal.divide(quarterly_issuance, axis=0) * 100;
\* the indexes are aligned (their union), a label missing on either side is NaN.
quarterly_mix_pct_nofill(nominal, issuance) ==
    Table(nominal.index \cup DOMAIN issuance, nominal.columns,
          LAMBDA q, b :
            FTimes(FDiv(IF q \in nominal.index THEN Num(nominal.cell[<< q, b >>]) ELSE NaN,
                        IF q \in DOMAIN issuance THEN Num(issuance[q]) ELSE NaN),
                   100))

\* quarterly_mix_nominal.divide(quarterly_issuance, axis=0).fillna(0) * 100
quarterly_mix_pct(nominal, issuance) ==
    Table(nominal.index \cup DOMAIN issuance, nominal.columns,
          LAMBDA q, b :
            FTimes(fillna(FDiv(IF q \in nominal.index THEN Num(nominal.cell[<< q, b >>]) ELSE NaN,
                               IF q \in DOMAIN issuance THEN Num(issuance[q]) ELSE NaN)),
                   100))

\* The traces of the percentage chart: for cat in order, if cat is a column and
\* the column's sum is > 0.
PctTraces(order, t) ==
    SelectSeq(order, LAMBDA cat :
        cat \in t.columns
        /\ FPositive(FSumOver([ q \in t.index |-> t.cell[<< q, cat >>] ], t.index)))

\* The traces of the nominal chart (integer amounts).
NominalTraces(order, t) ==
    SelectSeq(order, LAMBDA cat :
        cat \in t.columns
        /\ SumOver([ q \in t.index |-> t.cell[<< q, cat >>] ], t.index) > 0)

(***************************************************************************)
(* Euro side.  TIME_PERIOD is a month ordinal; a fetched series maps the   *)
(* months it covers to issuance amounts.                                   *)
(***************************************************************************)
EURO_COUNTRIES == << "DE", "IT", "FR" >>
EURO_TENORS == << "Up to 1Y", "1Y-2Y", "2Y-5Y", "5Y-10Y", "10Y+" >>
EURO_PLOT_ORDER == << "Up to 1Y", "1Y-2Y", "2Y-5Y", "5Y-10Y", "10Y+" >>

EuroCodes == { EURO_COUNTRIES[i] : i \in 1..Len(EURO_COUNTRIES) }

\* What the ECB returns for country number c, tenor number t, when the fetch
\* succeeds: odd tenors cover months 1 and 2, even tenors month 2 only; some
\* amounts are 0.
ECBSeries(c, t) ==
    [ name |-> EURO_TENORS[t],
      obs |-> [ m \in (IF t % 2 = 1 THEN {1, 2} ELSE {2}) |-> ((c + t + m) % 3) * 500 ] ]

FrameNames(frames) == { frames[i].name : i \in 1..Len(frames) }

FrameOf(frames, name) ==
    frames[CHOOSE i \in 1..Len(frames) : frames[i].name = name]

\* pd.concat(country_data_frames, axis=1): the union of the indexes, one column
\* per series, NaN where a series has no observation.
final_table(frames) ==
    Table(UNION { DOMAIN frames[i].obs : i \in 1..Len(frames) }, FrameNames(frames),
          LAMBDA m, name : IF m \in DOMAIN FrameOf(frames, name).obs
                           THEN Num(FrameOf(frames, name).obs[m]) ELSE NaN)

\* reset_index().melt(...) then dropna(subset=['Issuance']): the (month, tenor)
\* pairs that hold a number.
df_long(t) == { k \in t.index \X t.columns : IsNum(t.cell[k]) }

\* groupby([Grouper(freq='M'), 'Tenor'])['Issuance'].sum().unstack(fill_value=0)
monthly_summary(t) ==
    Table({ k[1] : k \in df_long(t) }, { k[2] : k \in df_long(t) },
          LAMBDA m, name : IF << m, name >> \in df_long(t)
                           THEN t.cell[<< m, name >>].num ELSE 0)

\* get_and_process_euro_data, after the fetch loop (lines 38-48).
get_and_process_euro_data(frames) ==
    IF frames = << >> THEN [ none |-> TRUE, df |-> EmptyTable ]
    ELSE [ none |-> FALSE, df |-> monthly_summary(final_table(frames)) ]

RowTotal(df, m) == SumOver([ c \in df.columns |-> df.cell[<< m, c >>] ], df.columns)

\* create_euro_plotly_charts: the two chart slots for a monthly summary.
create_euro_plotly_charts(df) ==
    IF df.index = {} \/ df.columns = {}
    THEN << Text(EURO_NO_DATA_MSG), Text(EURO_NO_DATA_MSG) >>
    ELSE
      LET positive == { m \in df.index : RowTotal(df, m) > 0 }
          df_pct == Table(positive, df.columns,
                          LAMBDA m, c : Rat(df.cell[<< m, c >>] * 100, RowTotal(df, m)))
          df_billions == Table(positive, df.columns,
                               LAMBDA m, c : Rat(df.cell[<< m, c >>], 1000))
      IN  IF positive = {}
          THEN << Text(EURO_NO_POSITIVE_MSG), Text(EURO_NO_POSITIVE_MSG) >>
          ELSE << Chart(PctTraces(EURO_PLOT_ORDER, df_pct), df_pct),
                  Chart(PctTraces(EURO_PLOT_ORDER, df_billions), df_billions) >>

(***************************************************************************)
(* Cache files.  DataFrame.to_pickle opens the target path for writing,    *)
(* which truncates it, and then dumps into it: between the two steps the   *)
(* path holds a partial file.                                              *)
(***************************************************************************)
AbsentUS == [ state |-> "absent", data |-> << >> ]
PartialUS == [ state |-> "partial", data |-> << >> ]
CompleteUS(df) == [ state |-> "complete", data |-> df ]

AbsentEuro == [ state |-> "absent", data |-> EmptyTable ]
PartialEuro == [ state |-> "partial", data |-> EmptyTable ]
CompleteEuro(df) == [ state |-> "complete", data |-> df ]

\* pd.read_pickle: FileNotFoundError for an absent path, an unpickling error
\* (EOFError, UnpicklingError) for a partial file, the table otherwise.
read_pickle(file) ==
    CASE file.state = "absent" -> "FileNotFoundError"
      [] file.state = "partial" -> "UnpicklingError"
      [] file.state = "complete" -> "ok"

(***************************************************************************)
(* app.py: dashboard, the GET / handler.  start_arg and end_arg are the    *)
(* query parameters, << >> when absent and << d >> when given.             *)
(***************************************************************************)
Page(status, country, slots, start_date, end_date) ==
    [ status |-> status, country |-> country,
      chart_html |-> slots[1], nominal_chart_html |-> slots[2],
      start_date |-> start_date, end_date |-> end_date ]

NoPage == Page(0, "", << Text(""), Text("") >>, << >>, << >>)

\* Lines 109-110: the US snapshot is empty.
us_cache_empty == << Text(US_EMPTY_MSG), Text(US_EMPTY_MSG) >>

\* Lines 132-151: the two US charts over the filtered records.
us_charts(df_filtered) ==
    LET nominal == quarterly_mix_nominal(df_filtered)
        pct == quarterly_mix_pct(nominal, quarterly_issuance(df_filtered))
    IN  << Chart(PctTraces(US_PLOT_ORDER, pct), pct),
           Chart(NominalTraces(US_PLOT_ORDER, nominal), nominal) >>

\* The handler of a missing Euro cache with the message assigned to
\* chart_html alone.
euro_cache_missing_first_slot_only(code) ==
    << Text(EURO_EMPTY_MSG(code)), Text("") >>

\* Lines 160-162: the Euro cache file of the selected country is not found.
euro_cache_missing(code) ==
    << Text(EURO_EMPTY_MSG(code)), Text(EURO_EMPTY_MSG(code)) >>

\* The US snapshot after a handler that filtered and indexed the global itself.
snapshot_after_filtered_in_place(data, df_filtered) == df_filtered

\* The US snapshot after the handler has run: the handler filters and indexes
\* a copy (.loc[mask].copy(), then set_index(inplace=True) on the copy).
snapshot_after(data, df_filtered) == data

dashboard_us(data, start_arg, end_arg, today) ==
    IF data = << >>
    THEN [ page |-> Page(200, "US", us_cache_empty, << >>, << >>),
           snapshot |-> data ]
    ELSE
      LET default_start == MinOf({ data[i].issue_date : i \in 1..Len(data) })
          start_date == IF start_arg = << >> THEN default_start ELSE start_arg[1]
          end_date == IF end_arg = << >> THEN today ELSE end_arg[1]
          df_filtered == FilterWindow(data, start_date, end_date)
      IN  [ page |-> Page(200, "US",
                          IF df_filtered = << >>
                          THEN << Text(US_NO_DATA_MSG), Text(US_NO_DATA_MSG) >>
                          ELSE us_charts(df_filtered),
                          << start_date >>, << end_date >>),
            snapshot |-> snapshot_after(data, df_filtered) ]

dashboard_euro(code, file) ==
    CASE read_pickle(file) = "FileNotFoundError" ->
           Page(200, code, euro_cache_missing(code), << >>, << >>)
      [] read_pickle(file) = "UnpicklingError" ->
           Page(500, code, << Text(""), Text("") >>, << >>, << >>)
      [] read_pickle(file) = "ok" ->
           Page(200, code, create_euro_plotly_charts(file.data), << >>, << >>)

(***************************************************************************)
(* Inputs.                                                                 *)
(***************************************************************************)
Durations == { NaN } \cup { Num(d) : d \in (0 - MaxDays)..MaxDays }

\* Raw US records for the aggregation: the last day of Q1 2024, the first day
\* of Q2 2024 and the first day of Q4 2024; a maturity that is missing or
\* 2024-05-16; an amount that is unparsable, 1 or 3.
IssueDates == { 90, 91, 274 }
MaturityDates == { NaT, Num(136) }
RawAmounts == { NaN, Num(1), Num(3) }

RawRecords ==
    [ issue_date : IssueDates, maturity_date : MaturityDates,
      total_accepted : RawAmounts ]

RawFrames == UNION { [ 1..n -> RawRecords ] : n \in 1..MaxRecords }

\* Query parameters of a request, and the day it is served.
StartArgs == { << >>, << 91 >>, << 300 >> }
EndArgs == { << >>, << 273 >> }
Todays == { 400 }
\* The same, for the requests served while a refresh may be running.
LiveStartArgs == { << >>, << 91 >> }
LiveEndArgs == { << >> }
Countries == { "US", "DE", "IT", "FR", "XX" }

\* The records the US upstream holds on page p.
UpstreamPage(p) ==
    IF p = 1
    THEN << [ issue_date |-> 90, maturity_date |-> Num(136), total_accepted |-> Num(2) ],
            [ issue_date |-> 91, maturity_date |-> NaT, total_accepted |-> NaN ] >>
    ELSE << [ issue_date |-> 274 + p, maturity_date |-> Num(4000), total_accepted |-> Num(p) ] >>

\* Snapshots left by an earlier refresh.
OldUS ==
    ProcessUS(<< [ issue_date |-> 10, maturity_date |-> Num(375), total_accepted |-> Num(5) ] >>)

OldEuro ==
    monthly_summary(final_table(<< [ name |-> "10Y+", obs |-> [ m \in {0} |-> 700 ] ] >>))

Modes == { "daily", "monthly", "all" }

(***************************************************************************)
(* update_data.py: the refresh job.                                        *)
(***************************************************************************)
\* fetch_us_data returning the records accumulated before the failure.
fetch_us_data_returns_partial(records) == [ none |-> FALSE, df |-> records ]

\* fetch_us_data, lines 67-69: what it returns after a RequestException.
fetch_us_data_on_error(records) == [ none |-> TRUE, df |-> << >> ]

\* A tenor loop that a failed fetch ends.
next_tenor_abort(t) == Len(EURO_TENORS) + 1

\* get_and_process_euro_data, lines 34-36: the tenor fetched after a failed one.
next_tenor_after_failure(t) == t + 1

\* Where __main__ goes when update_us_cache returns.
AfterUpdateUS == IF mode = "all" THEN "euro_fetch" ELSE "done"

JobVarsUS == << code_idx, tenor_idx, country_data_frames, tenor_log, euro_files >>
JobVarsEuro == << page_num, total_pages, all_records, us_fetch_failed, us_file >>
WebVars == << web_pc, US_DASHBOARD_DATA, us_loaded, us_absent_at_start,
              last_read, file_at_request, response >>
BinVars == << duration_days, maturity_bin >>
StartVars == << us_file_at_start, euro_at_start >>

\* __main__, lines 114-125: the argument selects the refresh.
Main(m) ==
    /\ job_pc = "start"
    /\ mode' = m
    /\ job_pc' = IF m = "monthly" THEN "euro_fetch" ELSE "us_fetch"
    /\ us_file_at_start' = us_file
    /\ euro_at_start' = euro_files
    /\ UNCHANGED << JobVarsUS, JobVarsEuro, WebVars, BinVars, exit_status, faults >>

\* fetch_us_data, lines 55-66: one page is fetched and its records accumulated.
FetchUSPageOk ==
    /\ job_pc = "us_fetch"
    /\ \E tp \in (IF page_num = 1 THEN 1..MaxPages ELSE { total_pages }) :
         /\ total_pages' = tp
         /\ job_pc' = IF page_num + 1 > tp THEN "us_open" ELSE "us_fetch"
    /\ all_records' = all_records \o UpstreamPage(page_num)
    /\ page_num' = page_num + 1
    /\ UNCHANGED << mode, us_fetch_failed, us_file, JobVarsUS, WebVars, BinVars,
                    StartVars, exit_status, faults >>

\* fetch_us_data, lines 56-57, 63-64, 67-69, and update_us_cache, lines 77-79:
\* the request fails or answers non-2xx (a RequestException).
FetchUSPageRequestError ==
    /\ job_pc = "us_fetch"
    /\ faults > 0
    /\ faults' = faults - 1
    /\ us_fetch_failed' = TRUE
    /\ job_pc' = IF fetch_us_data_on_error(all_records).none
                 THEN AfterUpdateUS ELSE "us_open"
    /\ all_records' = IF fetch_us_data_on_error(all_records).none
                      THEN all_records ELSE fetch_us_data_on_error(all_records).df
    /\ UNCHANGED << mode, page_num, total_pages, us_file, JobVarsUS, WebVars,
                    BinVars, StartVars, exit_status >>

\* fetch_us_data, lines 58-59, 65: a 2xx answer whose body has no 'data' key
\* raises KeyError, which nothing catches: the process ends with a traceback.
FetchUSPageBadPayload ==
    /\ job_pc = "us_fetch"
    /\ faults > 0
    /\ faults' = faults - 1
    /\ exit_status' = 1
    /\ job_pc' = "done"
    /\ UNCHANGED << mode, page_num, total_pages, all_records, us_fetch_failed,
                    us_file, JobVarsUS, WebVars, BinVars, StartVars >>

\* update_us_cache, line 99: to_pickle opens auctions.pkl for writing.
USOpen ==
    /\ job_pc = "us_open"
    /\ us_file' = PartialUS
    /\ job_pc' = "us_dump"
    /\ UNCHANGED << mode, page_num, total_pages, all_records, us_fetch_failed,
                    JobVarsUS, WebVars, BinVars, StartVars, exit_status, faults >>

\* update_us_cache, lines 81-100: the processed records are dumped and the file closed.
USDump ==
    /\ job_pc = "us_dump"
    /\ us_file' = CompleteUS(ProcessUS(all_records))
    /\ job_pc' = AfterUpdateUS
    /\ UNCHANGED << mode, page_num, total_pages, all_records, us_fetch_failed,
                    JobVarsUS, WebVars, BinVars, StartVars, exit_status, faults >>

LastCountry == code_idx = Len(EURO_COUNTRIES)

Code == EURO_COUNTRIES[code_idx]

\* The end of one pass of the tenor loop (lines 26-38), having fetched up to
\* tenor next - 1 with the series in frames: the loop goes on, or the country's
\* table goes to the cache, or (no series at all) the next country starts.
TenorStep(frames, next) ==
    LET loop_over == next > Len(EURO_TENORS)
        none == loop_over /\ get_and_process_euro_data(frames).none
    IN  /\ job_pc' = IF ~loop_over THEN "euro_fetch"
                     ELSE IF ~none THEN "euro_open"
                     ELSE IF LastCountry THEN "done" ELSE "euro_fetch"
        /\ code_idx' = IF none /\ ~LastCountry THEN code_idx + 1 ELSE code_idx
        /\ tenor_idx' = IF none /\ ~LastCountry THEN 1 ELSE next
        /\ country_data_frames' = IF none /\ ~LastCountry THEN << >> ELSE frames

\* get_and_process_euro_data, lines 29-33: the tenor's series arrives.
FetchTenorOk ==
    /\ job_pc = "euro_fetch"
    /\ tenor_log' = [ tenor_log EXCEPT ![Code][tenor_idx] = "ok" ]
    /\ TenorStep(Append(country_data_frames, ECBSeries(code_idx, tenor_idx)),
                 tenor_idx + 1)
    /\ UNCHANGED << mode, euro_files, JobVarsEuro, WebVars, BinVars, StartVars,
                    exit_status, faults >>

\* get_and_process_euro_data, lines 34-35: the fetch raises; the tenor is skipped.
FetchTenorFailed ==
    /\ job_pc = "euro_fetch"
    /\ faults > 0
    /\ faults' = faults - 1
    /\ tenor_log' = [ tenor_log EXCEPT ![Code][tenor_idx] = "failed" ]
    /\ TenorStep(country_data_frames, next_tenor_after_failure(tenor_idx))
    /\ UNCHANGED << mode, euro_files, JobVarsEuro, WebVars, BinVars, StartVars,
                    exit_status >>

\* update_euro_cache, line 108: to_pickle opens euro_data_<code>.pkl for writing.
EuroOpen ==
    /\ job_pc = "euro_open"
    /\ euro_files' = [ euro_files EXCEPT ![Code] = PartialEuro ]
    /\ job_pc' = "euro_dump"
    /\ UNCHANGED << mode, code_idx, tenor_idx, country_data_frames, tenor_log,
                    JobVarsEuro, WebVars, BinVars, StartVars, exit_status, faults >>

\* update_euro_cache, lines 104-109: the monthly summary is dumped, the file
\* closed, and the loop moves to the next country.
EuroDump ==
    /\ job_pc = "euro_dump"
    /\ euro_files' = [ euro_files EXCEPT
                         ![Code] = CompleteEuro(get_and_process_euro_data(country_data_frames).df) ]
    /\ job_pc' = IF LastCountry THEN "done" ELSE "euro_fetch"
    /\ code_idx' = IF LastCountry THEN code_idx ELSE code_idx + 1
    /\ tenor_idx' = 1
    /\ country_data_frames' = << >>
    /\ UNCHANGED << mode, tenor_log, JobVarsEuro, WebVars, BinVars, StartVars,
                    exit_status, faults >>

JobOnly == << job_pc, mode, page_num, total_pages, all_records, code_idx,
              tenor_idx, country_data_frames, exit_status, us_fetch_failed,
              us_file_at_start, euro_at_start, tenor_log, faults >>

(***************************************************************************)
(* app.py: the web process.                                                *)
(***************************************************************************)
\* Lines 91-97: the US cache is loaded once, when the module is imported.  A
\* missing file leaves an empty DataFrame; an unpickling error is not caught
\* and ends the process.
WebStart ==
    /\ web_pc = "down"
    /\ last_read' = read_pickle(us_file)
    /\ web_pc' = IF read_pickle(us_file) = "UnpicklingError" THEN "crashed" ELSE "up"
    /\ US_DASHBOARD_DATA' = IF read_pickle(us_file) = "ok" THEN us_file.data ELSE << >>
    /\ us_loaded' = US_DASHBOARD_DATA'
    /\ us_absent_at_start' = (read_pickle(us_file) = "FileNotFoundError")
    /\ UNCHANGED << us_file, euro_files, JobOnly, BinVars, file_at_request, response >>

\* Lines 100-151, 164: a request with country=US.
RequestUS(start_arg, end_arg, today) ==
    /\ web_pc = "up"
    /\ UNCHANGED << us_file, euro_files, JobOnly, BinVars, web_pc, us_loaded,
                    us_absent_at_start, last_read >>
    /\ response' = dashboard_us(US_DASHBOARD_DATA, start_arg, end_arg, today).page
    /\ US_DASHBOARD_DATA' = dashboard_us(US_DASHBOARD_DATA, start_arg, end_arg, today).snapshot
    /\ file_at_request' = us_file

\* Lines 100-105, 153-164: a request with a Euro country.
RequestEuro(code) ==
    /\ web_pc = "up"
    /\ UNCHANGED << us_file, euro_files, JobOnly, BinVars, web_pc,
                    US_DASHBOARD_DATA, us_loaded, us_absent_at_start,
                    file_at_request >>
    /\ response' = dashboard_euro(code, euro_files[code])
    /\ last_read' = read_pickle(euro_files[code])

\* Lines 100-105, 164: any other country code renders the page with empty slots.
RequestOther(code) ==
    /\ web_pc = "up"
    /\ UNCHANGED << us_file, euro_files, JobOnly, BinVars, web_pc,
                    US_DASHBOARD_DATA, us_loaded, us_absent_at_start, last_read,
                    file_at_request >>
    /\ response' = Page(200, code, << Text(""), Text("") >>, << >>, << >>)

RequestSelectable(starts, ends) ==
    \/ \E s \in starts, e \in ends, t \in Todays : RequestUS(s, e, t)
    \/ \E code \in EuroCodes : RequestEuro(code)

RequestUnknown == \E code \in Countries \ ({ "US" } \cup EuroCodes) : RequestOther(code)

(***************************************************************************)
(* The binner applied to one duration.                                     *)
(***************************************************************************)
Bin ==
    /\ maturity_bin = ""
    /\ maturity_bin' = assign_maturity_bin(duration_days)
    /\ UNCHANGED << duration_days, us_file, euro_files, JobOnly, WebVars >>

(***************************************************************************)
(* Initial states and specifications.                                      *)
(***************************************************************************)
JobInit ==
    /\ job_pc = "start"
    /\ mode = ""
    /\ page_num = 1
    /\ total_pages = 1
    /\ all_records = << >>
    /\ code_idx = 1
    /\ tenor_idx = 1
    /\ country_data_frames = << >>
    /\ exit_status = 0
    /\ us_fetch_failed = FALSE
    /\ us_file_at_start = us_file
    /\ euro_at_start = euro_files
    /\ tenor_log = [ c \in EuroCodes |-> [ t \in 1..Len(EURO_TENORS) |-> "pending" ] ]

WebInit ==
    /\ web_pc = "down"
    /\ US_DASHBOARD_DATA = << >>
    /\ us_loaded = << >>
    /\ us_absent_at_start = FALSE
    /\ last_read = "none"
    /\ file_at_request = us_file
    /\ response = NoPage

\* The caches an earlier refresh may have left behind.
FilesInit ==
    /\ us_file \in { AbsentUS, CompleteUS(OldUS) }
    /\ euro_files \in { [ c \in EuroCodes |-> AbsentEuro ],
                        [ c \in EuroCodes |-> CompleteEuro(OldEuro) ] }

\* The binner on every duration.
InitBin ==
    /\ duration_days \in Durations
    /\ maturity_bin = ""
    /\ us_file = AbsentUS
    /\ euro_files = [ c \in EuroCodes |-> AbsentEuro ]
    /\ faults = 0
    /\ JobInit /\ WebInit

SpecBin == InitBin /\ [][Bin]_vars

\* The web process over a US snapshot of up to MaxRecords rows.
InitAgg ==
    /\ duration_days = NaN
    /\ maturity_bin = ""
    /\ us_file \in { CompleteUS(ProcessUS(df)) : df \in RawFrames }
    /\ euro_files = [ c \in EuroCodes |-> AbsentEuro ]
    /\ faults = 0
    /\ JobInit /\ WebInit

NextAgg == WebStart \/ RequestSelectable(StartArgs, EndArgs) \/ RequestUnknown

SpecAgg == InitAgg /\ [][NextAgg]_vars

\* One run of the refresh job against an upstream that answers every request.
HealthyRefreshNext ==
    \/ \E m \in Modes : Main(m)
    \/ FetchUSPageOk
    \/ USOpen
    \/ USDump
    \/ FetchTenorOk
    \/ EuroOpen
    \/ EuroDump

\* One run of the refresh job, upstream failures included.
RefreshNext ==
    \/ HealthyRefreshNext
    \/ FetchUSPageRequestError
    \/ FetchUSPageBadPayload
    \/ FetchTenorFailed

InitRefresh ==
    /\ duration_days = NaN
    /\ maturity_bin = ""
    /\ FilesInit
    /\ faults = MaxFailures
    /\ JobInit /\ WebInit

SpecRefresh == InitRefresh /\ [][RefreshNext]_vars

\* The refresh job and the web process side by side, the upstream healthy:
\* the job writes each cache file while the web process may read it.
Init ==
    /\ duration_days = NaN
    /\ maturity_bin = ""
    /\ FilesInit
    /\ faults = 0
    /\ JobInit /\ WebInit

Next == HealthyRefreshNext \/ WebStart \/ RequestSelectable(LiveStartArgs, LiveEndArgs)

Spec == Init /\ [][Next]_vars

(***************************************************************************)
(* Properties.                                                             *)
(***************************************************************************)
Binned == maturity_bin # ""

\* C1: for every duration d handed to the binner, negative, zero and undefined
\* (NaN) included, the result is one of the seven US labels, and it is "Other"
\* if and only if d <= 0 or d is undefined.
C1_OtherIffNonPositiveOrUndefined ==
    Binned =>
      /\ maturity_bin \in USLabels
      /\ (maturity_bin = "Other")
           <=> (~IsNum(duration_days) \/ duration_days.num <= 0)

\* The threshold table of the binner, for an integer d > 0.
ThresholdLabel(d) ==
    CASE 0 < d /\ d < 30 -> "< 1 Month"
      [] 30 <= d /\ d < 91 -> "1-3 Months"
      [] 91 <= d /\ d < 365 -> "3-12 Months"
      [] 365 <= d /\ d < 1095 -> "1-3 Years"
      [] 1095 <= d /\ d < 3650 -> "3-10 Years"
      [] d >= 3650 -> "10+ Years"

\* C2: for every defined integer duration d > 0 the binner returns the label of
\* the threshold table; each boundary value belongs to the higher bucket.
C2_ThresholdTable ==
    (Binned /\ IsNum(duration_days) /\ duration_days.num > 0)
      => maturity_bin = ThresholdLabel(duration_days.num)

\* C2 witness: the boundary 3650 has been binned, into "10+ Years".
C2_Witness ==
    duration_days = Num(3650) /\ maturity_bin = "10+ Years"

\* The records of the loaded snapshot inside the window of the latest US page.
Windowed ==
    SelectSeq(us_loaded, LAMBDA r : /\ r.issue_date >= response.start_date[1]
                                    /\ r.issue_date <= response.end_date[1])

\* The last days of the calendar quarters of 2024 and 2025 (31 March, 30 June,
\* 30 September, 31 December), as day ordinals.
CalendarQuarterEnds == { 90, 181, 273, 365, 455, 546, 638, 730 }

\* Day d falls in the calendar quarter that ends on day q.
InQuarter(d, q) ==
    /\ q \in CalendarQuarterEnds
    /\ d <= q
    /\ \A e \in CalendarQuarterEnds : e < q => e < d

\* The total accepted amount of the windowed records issued in quarter q.
PeriodTotal(q) ==
    SumWhere(Windowed, LAMBDA r : InQuarter(r.issue_date, q),
                       LAMBDA r : r.total_accepted)

USChartServed ==
    /\ response.country = "US"
    /\ response.chart_html.kind = "chart"
    /\ response.nominal_chart_html.kind = "chart"

PctTable == response.chart_html.table
NominalTable == response.nominal_chart_html.table

\* C3: in the percentage table of a US page, a period whose total is nonzero has
\* bucket percentages that sum to 100; a period whose total is zero (a quarter
\* of the window with no records included) has every bucket percentage 0, and
\* the page is served without an error.
C3_PercentagesSumTo100OrAreZero ==
    USChartServed =>
      /\ response.status = 200
      /\ \A q \in PctTable.index :
           IF PeriodTotal(q) # 0
           THEN FEquals(FSumOver([ b \in PctTable.columns |-> PctTable.cell[<< q, b >>] ],
                                 PctTable.columns), 100)
           ELSE \A b \in PctTable.columns : FEquals(PctTable.cell[<< q, b >>], 0)

\* C3 witness: a US page whose percentage table holds a quarter with no records
\* between two quarters with records, one of them with a nonzero total.
C3_Witness ==
    /\ USChartServed
    /\ \E q \in PctTable.index :
         /\ q \notin NominalTable.index
         /\ \A i \in 1..Len(Windowed) : ~InQuarter(Windowed[i].issue_date, q)
         /\ \A b \in PctTable.columns : FEquals(PctTable.cell[<< q, b >>], 0)
    /\ \E q \in PctTable.index :
         /\ PeriodTotal(q) # 0
         /\ \E b \in PctTable.columns : FEquals(PctTable.cell[<< q, b >>], 100)

\* C4: in the quarterly nominal table of a US page, the rows are the quarters
\* and the columns the buckets of the windowed records; each (quarter, bucket)
\* cell is the sum of total_accepted over exactly the windowed records issued
\* in that calendar quarter with that bucket, 0 when there is none; and each
\* quarter's cells sum to the quarter's total over the same records.
C4_NominalTableReconciles ==
    USChartServed =>
      /\ NominalTable.index =
           { q \in CalendarQuarterEnds :
               \E i \in 1..Len(Windowed) : InQuarter(Windowed[i].issue_date, q) }
      /\ NominalTable.columns = { Windowed[i].maturity_bin : i \in 1..Len(Windowed) }
      /\ \A q \in NominalTable.index, b \in NominalTable.columns :
           /\ NominalTable.cell[<< q, b >>] =
                SumWhere(Windowed, LAMBDA r : InQuarter(r.issue_date, q) /\ r.maturity_bin = b,
                                   LAMBDA r : r.total_accepted)
           /\ (\A i \in 1..Len(Windowed) :
                 ~(InQuarter(Windowed[i].issue_date, q) /\ Windowed[i].maturity_bin = b))
                => NominalTable.cell[<< q, b >>] = 0
      /\ \A q \in NominalTable.index :
           SumOver([ b \in NominalTable.columns |-> NominalTable.cell[<< q, b >>] ],
                   NominalTable.columns) = PeriodTotal(q)

\* C4 witness: a US page whose nominal table has a (quarter, bucket) cell with
\* no record, filled with 0, and a cell holding a positive sum.
C4_Witness ==
    /\ USChartServed
    /\ \E q \in NominalTable.index, b \in NominalTable.columns :
         /\ \A i \in 1..Len(Windowed) :
              ~(InQuarter(Windowed[i].issue_date, q) /\ Windowed[i].maturity_bin = b)
         /\ NominalTable.cell[<< q, b >>] = 0
    /\ \E q \in NominalTable.index, b \in NominalTable.columns :
         NominalTable.cell[<< q, b >>] > 0

EuroRan == job_pc = "done" /\ exit_status = 0 /\ mode \in { "monthly", "all" }

CountryIndex(c) == CHOOSE i \in 1..Len(EURO_COUNTRIES) : EURO_COUNTRIES[i] = c

\* The refresh of country c is over: its tenor loop ended and its cache, if
\* any, was written.
CountryFinished(c) == EuroRan \/ CountryIndex(c) < code_idx

TenorsWith(c, outcome) ==
    { EURO_TENORS[t] : t \in { u \in 1..Len(EURO_TENORS) : tenor_log[c][u] = outcome } }

\* C5: if the US fetch fails on any page with a request error, the refresh
\* writes nothing: auctions.pkl holds exactly the snapshot it held before the
\* refresh began, whatever records the earlier pages delivered.
C5_FailedFetchLeavesCache ==
    us_fetch_failed => us_file = us_file_at_start

\* C5 witness: the fetch failed on a later page, after records were
\* accumulated, over an existing snapshot, and the run has ended.
C5_Witness ==
    /\ us_fetch_failed
    /\ page_num > 1
    /\ all_records # << >>
    /\ us_file_at_start.state = "complete"
    /\ job_pc = "done"

\* C6: a refresh run that suffers a US fetch failure ends with a non-zero exit
\* status, in the US-only mode and in the mode that refreshes both.
C6_FailedFetchExitsNonZero ==
    (job_pc = "done" /\ us_fetch_failed) => exit_status # 0

\* C7: in the Euro refresh of a country a failed tenor is skipped and every
\* other tenor is still fetched; the cache written for the country has columns
\* for exactly the tenors that succeeded; if every tenor failed no cache is
\* written and the prior file is unchanged; the refresh goes on to the
\* remaining countries.
C7_FailedTenorIsSkipped ==
    /\ \A c \in EuroCodes :
         CountryFinished(c) =>
           /\ TenorsWith(c, "pending") = {}
           /\ IF TenorsWith(c, "ok") = {}
              THEN euro_files[c] = euro_at_start[c]
              ELSE /\ euro_files[c].state = "complete"
                   /\ euro_files[c].data.columns = TenorsWith(c, "ok")
    /\ job_pc = "euro_fetch" =>
         /\ FrameNames(country_data_frames) = TenorsWith(Code, "ok")
         /\ \A t \in 1..Len(EURO_TENORS) :
              (tenor_log[Code][t] = "pending") <=> (t >= tenor_idx)

\* C7 witness: the run is over; every tenor of DE failed and its prior file is
\* still there; one tenor of IT failed and its cache has the other four
\* columns; FR has all five.
C7_Witness ==
    /\ EuroRan
    /\ TenorsWith("DE", "ok") = {}
    /\ euro_files["DE"] = CompleteEuro(OldEuro)
    /\ TenorsWith("IT", "failed") = { "1Y-2Y" }
    /\ euro_files["IT"].data.columns = { "Up to 1Y", "2Y-5Y", "5Y-10Y", "10Y+" }
    /\ euro_files["FR"].data.columns = { EURO_TENORS[t] : t \in 1..Len(EURO_TENORS) }

\* C8: whenever the web process reads a cache file (auctions.pkl at start, a
\* Euro file on a request) while a refresh may be writing it, it observes a
\* complete snapshot, the old one or the new one, never a half-written file.
C8_ReadersSeeCompleteSnapshots ==
    last_read # "UnpicklingError"

Placeholder(slot, msg) == slot.kind = "text" /\ slot.text = msg /\ msg # ""

\* C9: a request for a country whose cache file is absent (for US: absent when
\* the process started) returns a normal page whose two chart slots hold the
\* placeholder message; nothing is raised.
C9_AbsentCacheGivesPlaceholder ==
    /\ (response.country \in EuroCodes /\ last_read = "FileNotFoundError") =>
         /\ response.status = 200
         /\ Placeholder(response.chart_html, EURO_EMPTY_MSG(response.country))
         /\ Placeholder(response.nominal_chart_html, EURO_EMPTY_MSG(response.country))
    /\ (response.country = "US" /\ us_absent_at_start) =>
         /\ response.status = 200
         /\ Placeholder(response.chart_html, US_EMPTY_MSG)
         /\ Placeholder(response.nominal_chart_html, US_EMPTY_MSG)

\* C9 witness: the process started with auctions.pkl absent, and a request for
\* FR found euro_data_FR.pkl absent.
C9_Witness ==
    /\ us_absent_at_start
    /\ response.country = "FR"
    /\ last_read = "FileNotFoundError"
    /\ response.status = 200

\* C10: a request only reads.  Every step the web process takes once it is up
\* (each is a request) leaves every cache file and the US snapshot loaded at
\* start unchanged; a US page is rendered from the snapshot loaded at
\* start, whatever a refresh has written since, and a Euro page from the file
\* as it is when the request is served.
C10_RequestsOnlyRead ==
    [][ (web_pc = "up" /\ UNCHANGED JobOnly) =>
          /\ US_DASHBOARD_DATA' = us_loaded
          /\ us_file' = us_file /\ euro_files' = euro_files
          /\ response'.country = "US" =>
                \E s \in LiveStartArgs, e \in LiveEndArgs, t \in Todays :
                    response' = dashboard_us(us_loaded, s, e, t).page
          /\ response'.country \in EuroCodes =>
                response' = dashboard_euro(response'.country,
                                           euro_files[response'.country])
      ]_vars

\* C10 witness: a US page with charts was served from the snapshot loaded at
\* start while auctions.pkl already held a newer complete snapshot.
C10_Witness ==
    /\ response.country = "US"
    /\ response.chart_html.kind = "chart"
    /\ file_at_request.state = "complete"
    /\ file_at_request.data # us_loaded
    /\ us_loaded # << >>
    /\ US_DASHBOARD_DATA = us_loaded

====
